---- MODULE Spec2Model ----
(***************************************************************************)
(* A model of python-uniswap-demo.                                         *)
(*                                                                         *)
(*  - contracts.py: fetch_erc20_details, the ERC-20 metadata resolver     *)
(*    with its cachetools LRU cache; one action is one call, from entry   *)
(*    to return or exception, or one step of a call when two callers      *)
(*    share the cache.  The amount conversions and the cache key of       *)
(*    TokenDetails, as pure functions.                                    *)
(*  - swap.py / approve.py: the scripts from the resolution of the tokens *)
(*    to the report of what happened to the transaction.                  *)
(*                                                                         *)
(* Python strings are sequences of one-character strings.  An Optional    *)
(* value is a sequence of length at most one: None is <<>> and a present  *)
(* value v is <<v>>.                                                       *)
(***************************************************************************)
EXTENDS Integers, Sequences, FiniteSets, TLC

(***************************************************************************)
(* Bounds of the model.                                                    *)
(***************************************************************************)
\* Capacity of the LRU cache handed to fetch_erc20_details.
CacheSize == 2
\* Longest list of logs a receipt carries.
MaxLogs == 2
\* Longest pause, in seconds, between two polls for the receipt.
MaxLatency == 50
\* Most digits of a raw amount handed to the converter.
MaxDigits == 29
\* Most decimals of a token handed to the converter.
MaxDecimals == 18

(***************************************************************************)
(* Program constants.                                                      *)
(***************************************************************************)
\* fetch_erc20_details(max_str_length: int = 256)
DefaultMaxStrLength == 256
\* web3.eth.wait_for_transaction_receipt(tx_hash, timeout=120)
ReceiptTimeout == 120

None == <<>>

Some(v) == <<v>>

Min(a, b) == IF a <= b THEN a ELSE b

(***************************************************************************)
(* Addresses.  Two token contracts; the first one is passed by callers in  *)
(* its checksummed form or all in lower case.                              *)
(***************************************************************************)
LowerChar(c) ==
    CASE c = "A" -> "a"
      [] c = "B" -> "b"
      [] c = "C" -> "c"
      [] c = "D" -> "d"
      [] OTHER -> c

\* str.lower()
Lower(s) == [i \in DOMAIN s |-> LowerChar(s[i])]

TokenA == <<"0", "x", "A", "b">>

TokenB == <<"0", "x", "c", "D">>

Tokens == {TokenA, TokenB}

\* Web3.to_checksum_address: the one mixed-case form of an address.
to_checksum_address(a) == CHOOSE t \in Tokens : Lower(t) = Lower(a)

\* chain_id arguments; 0 stands for "not given" (None): `if not chain_id`
\* treats both alike.
ChainIdArgs == {0, 1, 2}

\* The chain the connection is attached to: web3.eth.chain_id.
NodeChainId == 1

\* max_str_length arguments: the default and a short one.
MaxStrLengths == {1, DefaultMaxStrLength}

Procs == {1, 2}

Fields == {"symbol", "name", "decimals", "totalSupply"}

(***************************************************************************)
(* What a contract call does on the node: it returns a value, fails with   *)
(* one of _call_missing_exceptions, or fails with OverflowError.           *)
(***************************************************************************)
Kinds == {"ok", "missing", "overflow"}

Overflows(c) == {f \in Fields : c[f] = "overflow"}

Missing(c) == {f \in Fields : c[f] = "missing"}

\* The contracts of the model: every combination of missing functions, and
\* one function that overflows, alone or before a missing name.
Contracts ==
    {c \in [symbol : Kinds, name : Kinds, decimals : Kinds, totalSupply : Kinds] :
        \/ Overflows(c) = {}
        \/ Cardinality(Overflows(c)) = 1 /\ Missing(c) = {}
        \/ Overflows(c) = {"symbol"} /\ Missing(c) = {"name"}}

WellFormed ==
    [symbol |-> "ok", name |-> "ok", decimals |-> "ok", totalSupply |-> "ok"]

\* The values a well-behaved read of each token returns.
SymbolOf(t) == IF t = TokenA THEN <<"T", "K", "A">> ELSE <<"B">>

NameOf(t) == IF t = TokenA THEN <<"T", "o", "k", "A">> ELSE <<"T", "B">>

DecimalsOf(t) == IF t = TokenA THEN 6 ELSE 18

Supplies == {100, 200}

(***************************************************************************)
(* Numbers.  A Python int is unbounded and a Decimal keeps a coefficient   *)
(* of any length, so a large number is written as the sequence of its      *)
(* decimal digits, most significant first, zero being <<0>>.               *)
(***************************************************************************)
Zeros(n) == [i \in 1..n |-> 0]

IsZero(ds) == \A i \in 1..Len(ds) : ds[i] = 0

RECURSIVE StripLeading(_)
StripLeading(ds) ==
    IF Len(ds) > 1 /\ ds[1] = 0 THEN StripLeading(Tail(ds)) ELSE ds

\* ds + 1
RECURSIVE Incr(_)
Incr(ds) ==
    IF ds = <<>> THEN <<1>>
    ELSE IF ds[Len(ds)] < 9 THEN [ds EXCEPT ![Len(ds)] = @ + 1]
    ELSE Incr(SubSeq(ds, 1, Len(ds) - 1)) \o <<0>>

\* The precision of the decimal context the program runs under: the
\* program never changes it, so it is the default of the decimal module.
DecimalPrec == 28

\* A non-negative Decimal: coeff * 10^exp.
Dec(coeff, exp) == [coeff |-> StripLeading(coeff), exp |-> exp]

\* Every Decimal operation rounds its exact result to the precision of the
\* context, half to even: a coefficient of more than DecimalPrec digits
\* loses the digits beyond.
RoundToContext(x) ==
    IF Len(x.coeff) <= DecimalPrec THEN x
    ELSE LET kept == SubSeq(x.coeff, 1, DecimalPrec)
             dropped == SubSeq(x.coeff, DecimalPrec + 1, Len(x.coeff))
             up == \/ dropped[1] > 5
                   \/ /\ dropped[1] = 5
                      /\ ~IsZero(Tail(dropped)) \/ kept[DecimalPrec] % 2 = 1
             c == IF up THEN Incr(kept) ELSE kept
         IN  IF Len(c) > DecimalPrec
             THEN Dec(SubSeq(c, 1, DecimalPrec), x.exp + Len(dropped) + 1)
             ELSE Dec(c, x.exp + Len(dropped))

\* int(decimal): the integer part, the fraction cut off.
ToInt(x) ==
    IF x.exp >= 0 THEN StripLeading(x.coeff \o Zeros(x.exp))
    ELSE IF 0 - x.exp >= Len(x.coeff) THEN <<0>>
    ELSE SubSeq(x.coeff, 1, Len(x.coeff) + x.exp)

\* Decimal(raw_amount) / Decimal(10**self.decimals): the exact quotient is
\* the coefficient raw_amount with the exponent -decimals.
convert_to_decimals(raw_amount, decimals) ==
    RoundToContext(Dec(raw_amount, 0 - decimals))

\* int(decimal_amount * 10**self.decimals): the exact product has the
\* coefficient of decimal_amount times 10**decimals.
convert_to_raw(decimal_amount, decimals) ==
    ToInt(RoundToContext(Dec(decimal_amount.coeff \o Zeros(decimals),
                             decimal_amount.exp)))

\* A Python int n >= 0 as hi * 2^61 + lo.
PyInt(hi, lo) == [hi |-> hi, lo |-> lo]

\* hash(n) of an int n >= 0 is n mod (2^61 - 1) on a 64-bit build; 2^61 is
\* 1 modulo 2^61 - 1, so the hash is hi + lo as long as that is below the
\* modulus, as it is for the numbers of the model.
IntHash(n) == n.hi + n.lo

\* hash((a, b)) is computed from hash(a) and hash(b); the hash of a string
\* and the mixing of the two hashes are taken to be injective on the
\* values of the model.
TupleHash(ha, hb) == <<ha, hb>>

\* No pure function under evaluation.
NoCalc == [op |-> "none"]

VARIABLES
    contract,   \* contract[t]: how each ERC-20 function of token t answers
    minted,     \* minted[t]: the token's current totalSupply on chain
    cache,      \* the LRU cache: entries from least to most recently used
    call,       \* call[p]: the fetch_erc20_details call of process p
    returned,   \* history: returned[k], the metadata last returned for key k
    used,       \* history: the keys most recently used through the cache, latest last
    wf,         \* the run of the swap / approve script
    calc        \* the evaluation of a pure function: its arguments and results

vars == <<contract, minted, cache, call, returned, used, wf, calc>>

(***************************************************************************)
(* cachetools.LRUCache, as a sequence of entries ordered from the least    *)
(* recently used (head) to the most recently used (last).                  *)
(***************************************************************************)
\* TokenDetails.generate_cache_key: hash((chain_id, address.lower())), for
\* a chain id given as a PyInt.
generate_cache_key(chain_id, address) ==
    TupleHash(IntHash(chain_id), Lower(address))

CacheKeys == (ChainIdArgs \ {0}) \X {Lower(t) : t \in Tokens}

CacheHas(c, k) == \E i \in 1..Len(c) : c[i].key = k

CacheIndex(c, k) == CHOOSE i \in 1..Len(c) : c[i].key = k

CacheRemove(c, i) == SubSeq(c, 1, i - 1) \o SubSeq(c, i + 1, Len(c))

\* Mutant: a lookup does not count as a use.
LRUTouch_unmoved(c, k) == c

\* LRUCache.__getitem__ moves the key to the most recently used end.
LRUTouch(c, k) ==
    LET i == CacheIndex(c, k)
    IN  CacheRemove(c, i) \o <<c[i]>>

\* cache.get(key): the stored value, or None when the key is absent.
LRUGet(c, k) == IF CacheHas(c, k) THEN Some(c[CacheIndex(c, k)].value) ELSE None

\* LRUCache.popitem drops the least recently used entry.
RECURSIVE LRUEvict(_)
LRUEvict(c) == IF Len(c) + 1 > CacheSize THEN LRUEvict(Tail(c)) ELSE c

\* Mutant: the value is written to every entry the cache holds.
LRUSet_everywhere(c, k, v) ==
    LET kept == IF CacheHas(c, k) THEN CacheRemove(c, CacheIndex(c, k))
                ELSE IF Len(c) + 1 > CacheSize THEN Tail(c) ELSE c
    IN  [i \in 1..Len(kept) |-> [key |-> kept[i].key, value |-> v]]
        \o <<[key |-> k, value |-> v]>>

\* cache[key] = value: an existing key is overwritten in place, a new key
\* first evicts while the cache is full; either way the key becomes the
\* most recently used.
LRUSet(c, k, v) ==
    IF CacheHas(c, k)
    THEN CacheRemove(c, CacheIndex(c, k)) \o <<[key |-> k, value |-> v]>>
    ELSE LRUEvict(c) \o <<[key |-> k, value |-> v]>>

(***************************************************************************)
(* fetch_erc20_details.                                                    *)
(***************************************************************************)
\* s[0:max_str_length]
Truncate(s, n) == SubSeq(s, 1, Min(n, Len(s)))

\* TokenDetails(erc_20, name, symbol, supply, decimals): the dataclass takes
\* its fields in the order contract, name, symbol, total_supply, decimals.
TokenDetails(address, a1, a2, a3, a4) ==
    [address |-> address, name |-> a1, symbol |-> a2, total_supply |-> a3, decimals |-> a4]

\* The dictionary written to the cache.
CacheEntry(name, symbol, supply, decimals) ==
    [name |-> name, symbol |-> symbol, supply |-> supply, decimals |-> decimals]

\* Mutant: the cached name and symbol change places.
FromCache_swapped(address, cached) ==
    TokenDetails(address, cached.symbol, cached.name, cached.supply, cached.decimals)

\* The TokenDetails rebuilt from a cached dictionary.
FromCache(address, cached) ==
    TokenDetails(address, cached.name, cached.symbol, cached.supply, cached.decimals)

\* The four metadata fields of a TokenDetails.
Metadata(td) ==
    [name |-> td.name, symbol |-> td.symbol, total_supply |-> td.total_supply,
     decimals |-> td.decimals]

NoError == [type |-> "none", field |-> "none"]

\* `raise TokenDetailError(f"Token {token_address} missing <field>")`:
\* contracts.py neither defines nor imports the name TokenDetailError, so
\* evaluating it raises NameError before the message is built.
RaiseTokenDetailError(field) == [type |-> "NameError", field |-> "none"]

\* An exception no except clause of the read matches leaves the function.
Propagated(type) == [type |-> type, field |-> "none"]

IdleCall ==
    [pc |-> "idle", token_address |-> TokenA, chain_arg |-> 0,
     max_str_length |-> DefaultMaxStrLength, raise_on_error |-> TRUE,
     use_cache |-> TRUE, chain_id |-> 0, address |-> TokenA,
     key |-> <<0, Lower(TokenA)>>, hit |-> FALSE,
     symbol |-> None, name |-> None, decimals |-> 0, supply |-> None,
     rpc |-> <<>>, result |-> None, error |-> NoError,
     before |-> None, recent |-> FALSE, victim |-> None]

\* History: the Last(n) of a sequence are its final n elements, or all.
Last(u, n) == SubSeq(u, IF Len(u) > n THEN Len(u) - n + 1 ELSE 1, Len(u))

\* History: the CacheSize most recently used keys in the order of their
\* latest use, after a use of k.
Use(u, k) == Last(SelectSeq(u, LAMBDA j : j # k) \o <<k>>, CacheSize)

\* History: the keys among the CacheSize most recently used.
Recent(u) == {u[i] : i \in 1..Len(u)}

\* History: the least recently used key, which a use of the new key k
\* pushes out of the CacheSize most recently used.
Victim(u, k) ==
    IF k \notin Recent(u) /\ Len(u) = CacheSize THEN Some(u[1]) ELSE None

\* History: the metadata of the TokenDetails a call through the cache has
\* just returned for key k; the history of a key ends when the cache drops it.
Record(r, c, k, td) ==
    [j \in CacheKeys |->
        IF j = k THEN Some(Metadata(td))
        ELSE IF CacheHas(c, j) THEN r[j] ELSE None]


\* What the node answers to a call of one ERC-20 function of token t.
NodeValue(t, field) ==
    CASE field = "symbol" -> SymbolOf(t)
      [] field = "name" -> NameOf(t)
      [] field = "decimals" -> DecimalsOf(t)
      [] field = "totalSupply" -> minted[t]

NodeKind(t, field) == contract[t][field]

\* Lines 218-224: the call as it stands when the cache is consulted.  The
\* chain id is asked of the node when the argument is None (or 0).  `before`
\* and `recent` record the history of the key as the call begins: what was
\* last returned for it, and whether it is among the most recently used.
Started(token_address, chain_arg, max_str_length, raise_on_error, use_cache) ==
    LET chain_id == IF chain_arg = 0 THEN NodeChainId ELSE chain_arg
    IN  [IdleCall EXCEPT
            !.pc = "symbol",
            !.token_address = token_address,
            !.chain_arg = chain_arg,
            !.max_str_length = max_str_length,
            !.raise_on_error = raise_on_error,
            !.use_cache = use_cache,
            !.chain_id = chain_id,
            !.address = to_checksum_address(token_address),
            !.key = generate_cache_key(PyInt(0, chain_id), token_address),
            !.rpc = IF chain_arg = 0 THEN <<"eth_chainId">> ELSE <<>>,
            !.before = returned[generate_cache_key(PyInt(0, chain_id), token_address)],
            !.recent = generate_cache_key(PyInt(0, chain_id), token_address) \in Recent(used)]

\* Mutant: the cache is consulted although the caller passed cache=None.
Cached_always(c) == LRUGet(cache, c.key)

\* Lines 226-228: cache.get(key), when there is a cache.
Cached(c) == IF c.use_cache THEN LRUGet(cache, c.key) ELSE None

\* Lines 229-235: the call returns the TokenDetails rebuilt from the cache.
ReturnCached(c, cached) ==
    [c EXCEPT !.pc = "done", !.hit = TRUE,
              !.result = Some(FromCache(c.address, cached))]

\* One `try: ... .call() except ...` block of a string field (symbol, name).
\* The call record after the read of `field`, whose next read is `next`.
ReadString(c, field, next) ==
    LET t == c.address
        kind == NodeKind(t, field)
        d == [c EXCEPT !.rpc = Append(c.rpc, field)]
    IN  CASE kind = "ok" ->
               [d EXCEPT ![field] = Some(Truncate(NodeValue(t, field), c.max_str_length)),
                         !.pc = next]
          [] kind = "missing" ->
               IF c.raise_on_error
               THEN [d EXCEPT !.pc = "failed", !.error = RaiseTokenDetailError(field)]
               ELSE [d EXCEPT ![field] = None, !.pc = next]
          [] kind = "overflow" ->
               [d EXCEPT ![field] = None, !.pc = next]

\* Mutant: a missing decimals() raises whatever raise_on_error says.
ReadDecimals_raising(c) ==
    IF c.pc # "decimals" THEN c ELSE
    LET t == c.address
        kind == NodeKind(t, "decimals")
        d == [c EXCEPT !.rpc = Append(c.rpc, "decimals")]
    IN  CASE kind = "ok" ->
               [d EXCEPT !.decimals = NodeValue(t, "decimals"), !.pc = "totalSupply"]
          [] kind = "missing" ->
               [d EXCEPT !.pc = "failed", !.error = RaiseTokenDetailError("decimals")]
          [] kind = "overflow" ->
               [d EXCEPT !.pc = "failed", !.error = Propagated("OverflowError")]

\* Lines 262-267: no clause for OverflowError.
ReadDecimals(c) ==
    IF c.pc # "decimals" THEN c ELSE
    LET t == c.address
        kind == NodeKind(t, "decimals")
        d == [c EXCEPT !.rpc = Append(c.rpc, "decimals")]
    IN  CASE kind = "ok" ->
               [d EXCEPT !.decimals = NodeValue(t, "decimals"), !.pc = "totalSupply"]
          [] kind = "missing" ->
               IF c.raise_on_error
               THEN [d EXCEPT !.pc = "failed", !.error = RaiseTokenDetailError("decimals")]
               ELSE [d EXCEPT !.decimals = 0, !.pc = "totalSupply"]
          [] kind = "overflow" ->
               [d EXCEPT !.pc = "failed", !.error = Propagated("OverflowError")]

\* Lines 269-274: no clause for OverflowError.
ReadSupply(c) ==
    IF c.pc # "totalSupply" THEN c ELSE
    LET t == c.address
        kind == NodeKind(t, "totalSupply")
        d == [c EXCEPT !.rpc = Append(c.rpc, "totalSupply")]
    IN  CASE kind = "ok" ->
               [d EXCEPT !.supply = Some(NodeValue(t, "totalSupply")), !.pc = "store"]
          [] kind = "missing" ->
               IF c.raise_on_error
               THEN [d EXCEPT !.pc = "failed", !.error = RaiseTokenDetailError("totalSupply")]
               ELSE [d EXCEPT !.supply = None, !.pc = "store"]
          [] kind = "overflow" ->
               [d EXCEPT !.pc = "failed", !.error = Propagated("OverflowError")]

\* Line 276.
BuildDetails(c) ==
    TokenDetails(c.address, c.name, c.symbol, c.supply, c.decimals)

\* Lines 278-283.
StoredEntry(c) == CacheEntry(c.name, c.symbol, c.supply, c.decimals)

\* Lines 276-284: the call returns the TokenDetails built from the reads.
ReturnFetched(c) == [c EXCEPT !.pc = "done", !.result = Some(BuildDetails(c))]

\* Mutant: symbol() has no `except OverflowError` clause.
ReadSymbol_unguarded(c) ==
    IF c.pc # "symbol" THEN c
    ELSE IF NodeKind(c.address, "symbol") = "overflow"
    THEN [c EXCEPT !.rpc = Append(c.rpc, "symbol"), !.pc = "failed",
                   !.error = Propagated("OverflowError")]
    ELSE ReadString(c, "symbol", "name")

\* Lines 236-247.
ReadSymbol(c) == IF c.pc = "symbol" THEN ReadString(c, "symbol", "name") ELSE c

\* Lines 249-260.
ReadName(c) == IF c.pc = "name" THEN ReadString(c, "name", "decimals") ELSE c

\* Mutant: what was read before the exception is stored.
Raised_storing(c, read) ==
    IF read.use_cache THEN LRUSet(c, read.key, StoredEntry(read)) ELSE c

\* The cache after an exception has left the function: lines 278-283 are
\* not reached.
Raised(c, read) == c

\* One call of fetch_erc20_details by process p, from entry to return or
\* exception: the cache lookup and, on a miss, the four reads in program
\* order up to the first exception that leaves the function.
Resolution(p, token_address, chain_arg, max_str_length, raise_on_error, use_cache) ==
    \E c \in {Started(token_address, chain_arg, max_str_length, raise_on_error, use_cache)} :
    \E cached \in {Cached(c)} :
        /\ call[p].pc \in {"idle", "done", "failed"}
        /\ IF cached # None
           THEN /\ call' = [call EXCEPT ![p] = ReturnCached(c, cached[1])]
                /\ cache' = LRUTouch(cache, c.key)
                /\ returned' = Record(returned, cache', c.key, call'[p].result[1])
                /\ used' = Use(used, c.key)
           ELSE \E c1 \in {ReadSymbol(c)} :
                \E c2 \in {ReadName(c1)} :
                \E c3 \in {ReadDecimals(c2)} :
                \E read \in {ReadSupply(c3)} :
                   IF read.pc = "failed"
                   THEN /\ call' = [call EXCEPT ![p] = read]
                        /\ cache' = Raised(cache, read)
                        /\ UNCHANGED <<returned, used>>
                   ELSE /\ call' = [call EXCEPT ![p] =
                                       [ReturnFetched(read) EXCEPT
                                           !.victim = IF use_cache
                                                      THEN Victim(used, read.key)
                                                      ELSE None]]
                        /\ IF use_cache
                           THEN /\ cache' = LRUSet(cache, read.key, StoredEntry(read))
                                /\ returned' = Record(returned, cache', read.key,
                                                      BuildDetails(read))
                                /\ used' = Use(used, read.key)
                           ELSE UNCHANGED <<cache, returned, used>>

\* A call of fetch_erc20_details by a caller of its own.
Fetch(p, token_address, chain_arg, max_str_length, raise_on_error, use_cache) ==
    /\ Resolution(p, token_address, chain_arg, max_str_length, raise_on_error, use_cache)
    /\ UNCHANGED <<contract, minted, wf, calc>>

\* Concurrent callers.  Lines 218-235 as one step: the chain id, the key
\* and the cache lookup; a hit returns, a miss goes on to the reads.
Lookup(p, token_address, chain_arg, max_str_length, raise_on_error, use_cache) ==
    \E c \in {Started(token_address, chain_arg, max_str_length, raise_on_error, use_cache)} :
    \E cached \in {Cached(c)} :
        /\ call[p].pc \in {"idle", "done", "failed"}
        /\ IF cached # None
           THEN /\ call' = [call EXCEPT ![p] = ReturnCached(c, cached[1])]
                /\ cache' = LRUTouch(cache, c.key)
                /\ returned' = Record(returned, cache', c.key, call'[p].result[1])
                /\ used' = Use(used, c.key)
           ELSE /\ call' = [call EXCEPT ![p] = c]
                /\ UNCHANGED <<cache, returned, used>>
        /\ UNCHANGED <<contract, minted, wf, calc>>

\* One remote read of a caller on the miss path: the read its position in
\* the function calls for.
Read(p) ==
    /\ call[p].pc \in {"symbol", "name", "decimals", "totalSupply"}
    /\ call' = [call EXCEPT ![p] =
                   CASE call[p].pc = "symbol" -> ReadSymbol(call[p])
                     [] call[p].pc = "name" -> ReadName(call[p])
                     [] call[p].pc = "decimals" -> ReadDecimals(call[p])
                     [] call[p].pc = "totalSupply" -> ReadSupply(call[p])]
    /\ UNCHANGED <<contract, minted, cache, returned, used, wf, calc>>

\* Lines 276-284 as one step: the cache write and the return.
Store(p) ==
    /\ call[p].pc = "store"
    /\ call' = [call EXCEPT ![p] = ReturnFetched(call[p])]
    /\ IF call[p].use_cache
       THEN /\ cache' = LRUSet(cache, call[p].key, StoredEntry(call[p]))
            /\ returned' = Record(returned, cache', call[p].key, BuildDetails(call[p]))
            /\ used' = Use(used, call[p].key)
       ELSE UNCHANGED <<cache, returned, used>>
    /\ UNCHANGED <<contract, minted, wf, calc>>

\* The chain moves on: tokens are minted, totalSupply grows.
Mint(t) ==
    /\ minted[t] = 100
    /\ minted' = [minted EXCEPT ![t] = 200]
    /\ UNCHANGED <<contract, cache, call, returned, used, wf, calc>>

(***************************************************************************)
(* swap.py and approve.py: resolve the tokens, build the transaction, send *)
(* it, wait for the receipt, report.  `out` is what the script prints once *)
(* the transaction is built; `steps` is the history of the steps done.     *)
(***************************************************************************)
Scripts == {"swap", "approve"}

\* tx_receipt.status
Statuses == {0, 1, 2}

\* event_abi_to_log_topic(swap_event_abi) and the topic of some other event.
SwapTopic == "Swap"

OtherTopic == "Transfer"

\* A log: its topics and its data, which decodes to (amount0, amount1, ...)
\* or does not decode.
Log(topics, decodes, amount0, amount1) ==
    [topics |-> topics, decodes |-> decodes, amount0 |-> amount0, amount1 |-> amount1]

SampleLogs ==
    {Log(<<SwapTopic>>, TRUE, 0 - 500000, 500100),
     Log(<<SwapTopic>>, TRUE, 300, 0 - 200),
     Log(<<SwapTopic>>, FALSE, 0, 0),
     Log(<<OtherTopic>>, TRUE, 0, 0),
     Log(<<>>, TRUE, 0, 0)}

RECURSIVE SeqsUpTo(_, _)
SeqsUpTo(S, n) ==
    IF n = 0 THEN {<<>>}
    ELSE LET shorter == SeqsUpTo(S, n - 1)
         IN  shorter \cup {Append(q, x) : q \in shorter, x \in S}

Receipts == [status : Statuses, logs : SeqsUpTo(SampleLogs, MaxLogs)]

\* What the script prints.
Message(kind, text, amount) == [kind |-> kind, text |-> text, amount |-> amount]

Successful == Message("successful", "Transaction successful with hash", None)

NotMined == Message("not_mined", "Transaction was not mined within the timeout period.", None)

\* except Exception as e: print(f"An error occurred: {e}")
ErrorOccurred(e) == Message("error", e, None)

TransactionFailed == "Transaction failed with hash"

NoSwapEvent == Message("no_swap_event", "No Swap event found in the transaction logs.", None)

\* 10 ** n
RECURSIVE Pow10(_)
Pow10(n) == IF n = 0 THEN 1 ELSE 10 * Pow10(n - 1)

AbsVal(x) == IF x < 0 THEN 0 - x ELSE x

\* print(f"Actual amount out: {abs(amount_out / 10 ** base.decimals)}"): the
\* quotient as numerator and denominator.
ActualAmountOut(amount_out, decimals) ==
    Message("amount_out", "Actual amount out", Some(<<AbsVal(amount_out), Pow10(decimals)>>))

\* decimal_amount = Decimal(0.01): the binary double nearest to 0.01,
\* exactly.
DecimalAmount ==
    Dec(<<
        1, 0, 0, 0, 0, 0, 0, 0, 0, 0, 0, 0, 0, 0, 0, 0, 0, 2, 0,
        8, 1, 6, 6, 8, 1, 7, 1, 1, 7, 2, 1, 6, 8, 5, 1, 3, 2, 9,
        4, 3, 0, 9, 3, 7, 7, 6, 7, 0, 2, 8, 8, 0, 8, 5, 9, 3, 7, 5>>,
        0 - 59)

\* swap.py starts at line 85 by resolving the base token, approve.py at
\* line 25 by resolving the quote token.
InitWorkflow(script) ==
    [script |-> script, pc |-> IF script = "swap" THEN "base" ELSE "quote",
     sent |-> 0, elapsed |-> 0,
     receipt |-> None, tx_receipt |-> None, timed_out |-> FALSE,
     base_decimals |-> 0, quote_decimals |-> 0, raw_amount |-> None,
     swap_log |-> None, out |-> <<>>, steps |-> <<>>]

\* base = fetch_erc20_details(web3, base_token_addr): an exception ends the
\* script, the call being outside every try block.
ResolveBase ==
    /\ wf.pc = "base"
    /\ Resolution(1, TokenA, 0, DefaultMaxStrLength, TRUE, TRUE)
    /\ wf' = IF call'[1].pc = "failed"
             THEN [wf EXCEPT !.pc = "crashed"]
             ELSE [wf EXCEPT !.pc = "quote",
                             !.base_decimals = call'[1].result[1].decimals,
                             !.steps = Append(wf.steps, "resolve_base")]
    /\ UNCHANGED <<contract, minted, calc>>

\* quote = fetch_erc20_details(web3, quote_token_addr)
ResolveQuote ==
    /\ wf.pc = "quote"
    /\ Resolution(1, TokenB, 0, DefaultMaxStrLength, TRUE, TRUE)
    /\ wf' = IF call'[1].pc = "failed"
             THEN [wf EXCEPT !.pc = "crashed"]
             ELSE [wf EXCEPT !.pc = "build",
                             !.quote_decimals = call'[1].result[1].decimals,
                             !.steps = Append(wf.steps, "resolve_quote")]
    /\ UNCHANGED <<contract, minted, calc>>

\* swap.py lines 88-125: the raw amount, the quote asked of the quoter
\* contract, the transaction built by the router; approve.py lines 26-37:
\* the approve transaction built.  The remote calls among them may raise,
\* which ends the script.
Build ==
    /\ wf.pc = "build"
    /\ \E answered \in BOOLEAN :
         IF answered
         THEN wf' = [wf EXCEPT
                        !.pc = "send",
                        !.raw_amount =
                            IF wf.script = "swap"
                            THEN Some(convert_to_raw(DecimalAmount, wf.quote_decimals))
                            ELSE None,
                        !.steps = Append(wf.steps, "build")]
         ELSE wf' = [wf EXCEPT !.pc = "crashed"]
    /\ UNCHANGED <<contract, minted, cache, call, returned, used, calc>>

\* web3.eth.send_transaction(tx) hands the transaction to the node.
\* approve.py sends inside its try block, swap.py (line 128) before it.
Send ==
    /\ wf.pc = "send"
    /\ \E accepted \in BOOLEAN :
         IF accepted
         THEN wf' = [wf EXCEPT !.sent = wf.sent + 1, !.pc = "wait", !.elapsed = 0,
                               !.steps = Append(wf.steps, "send")]
         ELSE IF wf.script = "approve"
              THEN wf' = [wf EXCEPT !.pc = "exit",
                                    !.out = Append(wf.out, ErrorOccurred("send_transaction"))]
              ELSE wf' = [wf EXCEPT !.pc = "crashed"]
    /\ UNCHANGED <<contract, minted, cache, call, returned, used, calc>>

\* The node mines the transaction: its receipt exists from now on.
Mine(r) ==
    /\ wf.sent > 0
    /\ wf.receipt = None
    /\ wf' = [wf EXCEPT !.receipt = Some(r)]
    /\ UNCHANGED <<contract, minted, cache, call, returned, used, calc>>

\* Has the deadline of wait_for_transaction_receipt passed?
Expired(elapsed) == elapsed > ReceiptTimeout

\* Mutant: the wait is started again after a timeout.
OnTimeExhausted_retry(w) ==
    [w EXCEPT !.pc = "send", !.timed_out = TRUE, !.out = Append(w.out, NotMined),
              !.steps = Append(w.steps, "confirm")]

\* `except TimeExhausted as e:` of both scripts.
OnTimeExhausted(w) ==
    [w EXCEPT !.pc = "exit", !.timed_out = TRUE, !.out = Append(w.out, NotMined),
              !.steps = Append(w.steps, "confirm")]

\* Mutant: the clock the wait reads does not advance.
Sleep_frozen(w, d) == w

\* The wait sleeps between two polls: d seconds later.
Sleep(w, d) == [w EXCEPT !.elapsed = w.elapsed + d]

\* One turn of the loop in web3.eth.wait_for_transaction_receipt(tx_hash,
\* timeout=120): ask for the receipt; return it if there is one, otherwise
\* sleep, and raise TimeExhausted once more than `timeout` seconds have
\* passed since the wait began.  The time waited is local to the wait: it
\* is gone when the wait returns the receipt.
Poll ==
    /\ wf.pc = "wait"
    /\ IF wf.receipt # None
       THEN wf' = [wf EXCEPT !.tx_receipt = wf.receipt, !.pc = "check",
                             !.elapsed = 0,
                             !.steps = Append(wf.steps, "confirm")]
       ELSE \E d \in 1..MaxLatency :
                LET slept == Sleep(wf, d)
                IN  wf' = IF Expired(slept.elapsed) THEN OnTimeExhausted(slept) ELSE slept
    /\ UNCHANGED <<contract, minted, cache, call, returned, used, calc>>

\* Mutant: every status but 0 counts as success.
CheckedStatus_nonzero(w) ==
    IF w.tx_receipt[1].status # 0
    THEN [w EXCEPT !.out = Append(w.out, Successful),
                   !.pc = IF w.script = "swap" THEN "scan" ELSE "exit"]
    ELSE [w EXCEPT !.out = Append(w.out, ErrorOccurred(TransactionFailed)),
                   !.pc = "exit"]

\* Mutant: the logs are scanned after a failed transaction as well.
CheckedStatus_scanning(w) ==
    IF w.tx_receipt[1].status = 1
    THEN [w EXCEPT !.out = Append(w.out, Successful),
                   !.pc = IF w.script = "swap" THEN "scan" ELSE "exit"]
    ELSE [w EXCEPT !.out = Append(w.out, ErrorOccurred(TransactionFailed)),
                   !.pc = IF w.script = "swap" THEN "scan" ELSE "exit"]

\* `if tx_receipt.status == 1: print(...) else: raise Exception(...)`, the
\* exception being caught by `except Exception as e` of the same script.
CheckedStatus(w) ==
    IF w.tx_receipt[1].status = 1
    THEN [w EXCEPT !.out = Append(w.out, Successful),
                   !.pc = IF w.script = "swap" THEN "scan" ELSE "exit"]
    ELSE [w EXCEPT !.out = Append(w.out, ErrorOccurred(TransactionFailed)),
                   !.pc = "exit"]

CheckStatus ==
    /\ wf.pc = "check"
    /\ wf' = CheckedStatus(wf)
    /\ UNCHANGED <<contract, minted, cache, call, returned, used, calc>>

\* next((log for log in tx_receipt.logs if log.topics[0] == swap_event_signature), None):
\* the index of the log found, 0 for None, -1 when log.topics[0] raises
\* IndexError on a log without topics that is reached first.
RECURSIVE FindSwapEvent(_, _)
FindSwapEvent(logs, i) ==
    IF i > Len(logs) THEN 0
    ELSE IF Len(logs[i].topics) = 0 THEN 0 - 1
    ELSE IF logs[i].topics[1] = SwapTopic THEN i
    ELSE FindSwapEvent(logs, i + 1)

\* Line 138, swap_log: the log the search returns, None when it returns
\* None or raises.
SwapLog(w) ==
    LET logs == w.tx_receipt[1].logs
        i == FindSwapEvent(logs, 1)
    IN  IF i > 0 THEN Some(logs[i]) ELSE None

\* Mutant: the amount that is positive is taken.
AmountOut_positive(amount0, amount1) == IF amount0 > 0 THEN amount0 ELSE amount1

\* decoded_event[0] if int(decoded_event[0]) < 0 else decoded_event[1]
AmountOut(amount0, amount1) == IF amount0 < 0 THEN amount0 ELSE amount1

\* swap.py lines 138-158, with `except Exception as e` for what they raise.
Scanned(w) ==
    LET logs == w.tx_receipt[1].logs
        i == FindSwapEvent(logs, 1)
    IN  CASE i = 0 - 1 -> ErrorOccurred("IndexError")
          [] i = 0 -> NoSwapEvent
          [] i > 0 ->
               IF logs[i].decodes
               THEN ActualAmountOut(AmountOut(logs[i].amount0, logs[i].amount1),
                                    w.base_decimals)
               ELSE ErrorOccurred("DecodingError")

ScanLogs ==
    /\ wf.pc = "scan"
    /\ wf' = [wf EXCEPT !.swap_log = SwapLog(wf),
                         !.out = Append(wf.out, Scanned(wf)), !.pc = "exit",
                         !.steps = Append(wf.steps, "scan")]
    /\ UNCHANGED <<contract, minted, cache, call, returned, used, calc>>

(***************************************************************************)
(* Specifications.                                                         *)
(***************************************************************************)
\* The resolver with one caller at a time.  Token B is a well-formed
\* ERC-20; the functions of token A answer in any of the three ways.
Init ==
    /\ contract \in [Tokens -> Contracts]
    /\ contract[TokenB] = WellFormed
    /\ minted = [t \in Tokens |-> 100]
    /\ cache = <<>>
    /\ call = [p \in Procs |-> IdleCall]
    /\ returned = [k \in CacheKeys |-> None]
    /\ used = <<>>
    /\ wf = InitWorkflow("swap")
    /\ calc = NoCalc

\* The calls of the model: <<token_address, chain_id, max_str_length,
\* raise_on_error, cache in use>>.  Every combination for the checksummed
\* addresses with the cache on the chain of the connection, named or not;
\* the other chain with the default arguments; the lower-case address and
\* cache=None with the default max_str_length.
Calls ==
    ({TokenA, TokenB} \X {0, NodeChainId} \X MaxStrLengths \X BOOLEAN \X {TRUE})
    \cup ({TokenA, TokenB} \X (ChainIdArgs \ {0, NodeChainId})
            \X {DefaultMaxStrLength} \X {TRUE} \X {TRUE})
    \cup ({Lower(TokenA)} \X {0, 1} \X {DefaultMaxStrLength} \X BOOLEAN \X {TRUE})
    \cup ({TokenA, TokenB} \X {0} \X {DefaultMaxStrLength} \X BOOLEAN \X {FALSE})

Resolve(p) == \E a \in Calls : Fetch(p, a[1], a[2], a[3], a[4], a[5])

Next ==
    \/ Resolve(1)
    \/ Mint(TokenA)

Spec == Init /\ [][Next]_vars

\* A token without decimals().
NoDecimals == [WellFormed EXCEPT !.decimals = "missing"]

\* The two scripts, on tokens that are well-formed or lack decimals();
\* approve.py has to do with the quote token only.
TxInit ==
    /\ contract \in [Tokens -> {WellFormed, NoDecimals}]
    /\ minted = [t \in Tokens |-> 100]
    /\ cache = <<>>
    /\ call = [p \in Procs |-> IdleCall]
    /\ returned = [k \in CacheKeys |-> None]
    /\ used = <<>>
    /\ \E script \in Scripts : wf = InitWorkflow(script)
    /\ wf.script = "approve" => contract[TokenA] = WellFormed
    /\ calc = NoCalc

TxNext ==
    \/ ResolveBase
    \/ ResolveQuote
    \/ Build
    \/ Send
    \/ \E r \in Receipts : Mine(r)
    \/ Poll
    \/ CheckStatus
    \/ ScanLogs

\* The script runs on while it can; the node may never mine.
TxSpec ==
    /\ TxInit
    /\ [][TxNext]_vars
    /\ WF_vars(ResolveBase)
    /\ WF_vars(ResolveQuote)
    /\ WF_vars(Build)
    /\ WF_vars(Send)
    /\ WF_vars(Poll)
    /\ WF_vars(CheckStatus)
    /\ WF_vars(ScanLogs)

\* Two callers share the cache.  Both tokens are well-formed ERC-20s; the
\* calls are strict, with the cache, for either token on either chain.
ConcInit ==
    /\ contract = [t \in Tokens |-> WellFormed]
    /\ minted = [t \in Tokens |-> 100]
    /\ cache = <<>>
    /\ call = [p \in Procs |-> IdleCall]
    /\ returned = [k \in CacheKeys |-> None]
    /\ used = <<>>
    /\ wf = InitWorkflow("swap")
    /\ calc = NoCalc

ConcCalls == Tokens \X {1, 2} \X {DefaultMaxStrLength} \X {TRUE} \X {TRUE}

ConcNext ==
    \/ \E p \in Procs, a \in ConcCalls : Lookup(p, a[1], a[2], a[3], a[4], a[5])
    \/ \E p \in Procs : Read(p)
    \/ \E p \in Procs : Store(p)
    \/ Mint(TokenA)

ConcSpec == ConcInit /\ [][ConcNext]_vars

\* The raw amounts of the model: every single digit, and the numbers of up
\* to MaxDigits digits that are zero between their first and last digit.
RawAmounts ==
    {<<d>> : d \in 0..9}
    \cup {<<lead>> \o Zeros(n) \o <<last>> :
              lead \in {1, 9}, n \in 0..(MaxDigits - 2), last \in {0, 1, 5, 9}}

\* A raw amount is converted to a decimal amount and back.
ConvInit ==
    /\ contract = [t \in Tokens |-> WellFormed]
    /\ minted = [t \in Tokens |-> 100]
    /\ cache = <<>>
    /\ call = [p \in Procs |-> IdleCall]
    /\ returned = [k \in CacheKeys |-> None]
    /\ used = <<>>
    /\ wf = InitWorkflow("swap")
    /\ \E r \in RawAmounts, d \in 0..MaxDecimals :
           calc = [op |-> "convert", pc |-> "raw", raw |-> r, decimals |-> d,
                   decimal |-> None, back |-> None]

ToDecimal ==
    /\ calc.pc = "raw"
    /\ calc' = [calc EXCEPT
                   !.decimal = Some(convert_to_decimals(calc.raw, calc.decimals)),
                   !.pc = "decimal"]
    /\ UNCHANGED <<contract, minted, cache, call, returned, used, wf>>

ToRaw ==
    /\ calc.pc = "decimal"
    /\ calc' = [calc EXCEPT
                   !.back = Some(convert_to_raw(calc.decimal[1], calc.decimals)),
                   !.pc = "done"]
    /\ UNCHANGED <<contract, minted, cache, call, returned, used, wf>>

ConvNext == ToDecimal \/ ToRaw

ConvSpec == ConvInit /\ [][ConvNext]_vars

\* The chain ids of the model: 1, 2, 2^61 + 1 and 2^61 + 2.
KeyChainIds == {PyInt(hi, lo) : hi \in {0, 1}, lo \in {1, 2}}

\* The addresses of the model: each token checksummed and in lower case.
KeyAddresses == Tokens \cup {Lower(t) : t \in Tokens}

\* The cache keys of two (chain id, address) pairs are generated.
KeyInit ==
    /\ contract = [t \in Tokens |-> WellFormed]
    /\ minted = [t \in Tokens |-> 100]
    /\ cache = <<>>
    /\ call = [p \in Procs |-> IdleCall]
    /\ returned = [k \in CacheKeys |-> None]
    /\ used = <<>>
    /\ wf = InitWorkflow("swap")
    /\ \E a \in KeyChainIds \X KeyAddresses, b \in KeyChainIds \X KeyAddresses :
           calc = [op |-> "key", pc |-> "args", a |-> a, b |-> b,
                   key_a |-> None, key_b |-> None]

GenerateKeys ==
    /\ calc.pc = "args"
    /\ calc' = [calc EXCEPT
                   !.key_a = Some(generate_cache_key(calc.a[1], calc.a[2])),
                   !.key_b = Some(generate_cache_key(calc.b[1], calc.b[2])),
                   !.pc = "done"]
    /\ UNCHANGED <<contract, minted, cache, call, returned, used, wf>>

KeyNext == GenerateKeys

KeySpec == KeyInit /\ [][KeyNext]_vars

(***************************************************************************)
(* Claims about fetch_erc20_details, checked under Spec.                   *)
(***************************************************************************)
Finished(c) == c.pc \in {"done", "failed"}

\* A finished call that went to the node for the metadata.
Missed(c) == Finished(c) /\ ~c.hit

IsRead(x) == x # "eth_chainId"

\* The metadata reads a call has attempted, in the order it attempted them.
Reads(c) == SelectSeq(c.rpc, IsRead)

ReadOrder == <<"symbol", "name", "decimals", "totalSupply">>

IsPrefix(s, t) == Len(s) <= Len(t) /\ s = SubSeq(t, 1, Len(s))

Attempted(c, field) == \E i \in 1..Len(c.rpc) : c.rpc[i] = field

FitsIn(opt, n) == opt = None \/ Len(opt[1]) <= n

CachedKeys == [i \in 1..Len(cache) |-> cache[i].key]

\* C1 as stated: a call answered from the cache has made no remote call of
\* any kind, the chain-id query included, and returns the metadata that
\* the previous call for the key returned.
C1_HitMakesNoRemoteCall ==
    \A p \in Procs :
        (call[p].pc = "done" /\ call[p].hit) =>
            /\ call[p].rpc = <<>>
            /\ call[p].before = Some(Metadata(call[p].result[1]))

\* C1 as amended: a call answered from the cache has attempted none of the
\* four metadata reads and returns the metadata that the previous call for
\* the key returned; it has asked the node for the chain id exactly when
\* the caller did not supply one.
C1_HitReadsNoMetadata ==
    \A p \in Procs :
        (call[p].pc = "done" /\ call[p].hit) =>
            /\ call[p].rpc = IF call[p].chain_arg = 0 THEN <<"eth_chainId">> ELSE <<>>
            /\ call[p].before = Some(Metadata(call[p].result[1]))

\* A hit without chain_id that returns the totalSupply first read, after
\* the chain has moved on.
C1_Witness ==
    \E p \in Procs :
        /\ call[p].pc = "done" /\ call[p].hit /\ call[p].chain_arg = 0
        /\ call[p].result[1].total_supply = Some(100)
        /\ minted[call[p].address] = 200

\* C2: on a miss in strict mode the reads are attempted in the order
\* symbol, name, decimals, totalSupply, and the first read that finds its
\* field unreadable ends the call with the token detail error naming that
\* field, no later read attempted and no TokenDetails returned.
C2_StrictAbortNamesField ==
    \A p \in Procs :
        LET c == call[p]
            r == Reads(c)
        IN  (Missed(c) /\ c.raise_on_error) =>
                /\ IsPrefix(r, ReadOrder)
                /\ \A i \in 1..Len(r) :
                       contract[c.address][r[i]] = "missing" =>
                           /\ i = Len(r)
                           /\ c.pc = "failed"
                           /\ c.result = None
                           /\ c.error = [type |-> "TokenDetailError", field |-> r[i]]

\* C3: a strict call never returns a TokenDetails for a token one of whose
\* fields is unreadable on chain, whatever calls came before it.
C3_StrictNeverReturnsDegraded ==
    \A p \in Procs :
        (call[p].pc = "done" /\ call[p].raise_on_error) =>
            Missing(contract[call[p].address]) = {}

\* C4: on a miss in lenient mode the call never raises the token detail
\* error; when the only failures are unreadable fields, all four reads are
\* attempted in order and a TokenDetails is returned in which each
\* unreadable field is None (0 for decimals) and each readable one holds
\* the value read (symbol and name cut to max_str_length).
C4_LenientNeverRaises ==
    \A p \in Procs :
        LET c == call[p]
            k == contract[c.address]
        IN  (Missed(c) /\ ~c.raise_on_error) =>
                /\ c.pc = "failed" => c.error = Propagated("OverflowError")
                /\ Overflows(k) = {} =>
                       /\ c.pc = "done"
                       /\ Reads(c) = ReadOrder
                       /\ c.result # None
                       /\ c.result[1].symbol =
                              IF k.symbol = "missing" THEN None
                              ELSE Some(Truncate(SymbolOf(c.address), c.max_str_length))
                       /\ c.result[1].name =
                              IF k.name = "missing" THEN None
                              ELSE Some(Truncate(NameOf(c.address), c.max_str_length))
                       /\ c.result[1].decimals =
                              IF k.decimals = "missing" THEN 0 ELSE DecimalsOf(c.address)
                       /\ IF k.totalSupply = "missing"
                          THEN c.result[1].total_supply = None
                          ELSE \E v \in Supplies :
                                  /\ v <= minted[c.address]
                                  /\ c.result[1].total_supply = Some(v)

\* A lenient miss on a token none of whose four fields is readable.
C4_Witness ==
    \E p \in Procs :
        /\ Missed(call[p]) /\ ~call[p].raise_on_error
        /\ Missing(contract[call[p].address]) = Fields
        /\ call[p].result = Some(TokenDetails(call[p].address, None, None, None, 0))

\* C5: OverflowError while reading symbol or name leaves that field None
\* and the call goes on to the next read, in strict and in lenient mode; a
\* token whose only faults are such overflows is resolved.  OverflowError
\* while reading decimals or totalSupply ends the call with that error.
C5_OverflowDegradesStrings ==
    \A p \in Procs :
        LET c == call[p]
            k == contract[c.address]
        IN  Missed(c) =>
                /\ (k.symbol = "overflow" /\ Attempted(c, "symbol")) =>
                       c.symbol = None /\ Attempted(c, "name")
                /\ (k.name = "overflow" /\ Attempted(c, "name")) =>
                       c.name = None /\ Attempted(c, "decimals")
                /\ (Missing(k) = {} /\ Overflows(k) \subseteq {"symbol", "name"}) =>
                       /\ c.pc = "done"
                       /\ (k.symbol = "overflow" => c.result[1].symbol = None)
                       /\ (k.name = "overflow" => c.result[1].name = None)
                /\ (k.decimals = "overflow" /\ Attempted(c, "decimals")) =>
                       /\ c.pc = "failed"
                       /\ c.error = Propagated("OverflowError")
                       /\ c.result = None
                       /\ ~Attempted(c, "totalSupply")
                /\ (k.totalSupply = "overflow" /\ Attempted(c, "totalSupply")) =>
                       /\ c.pc = "failed"
                       /\ c.error = Propagated("OverflowError")
                       /\ c.result = None

\* A strict miss that returns although symbol() overflowed.
C5_Witness ==
    \E p \in Procs :
        /\ Missed(call[p]) /\ call[p].raise_on_error /\ call[p].pc = "done"
        /\ contract[call[p].address].symbol = "overflow"
        /\ call[p].result[1].symbol = None
        /\ call[p].result[1].name # None

\* C6: the cache never holds more than CacheSize entries; it holds exactly
\* the most recently used keys, hits and insertions both counting as use,
\* so that a call through the cache hits exactly when its key is among
\* them, and an insertion into a full cache drops the least recently used
\* key and no other.
C6_LeastRecentlyUsedEvicted ==
    /\ Len(cache) <= CacheSize
    /\ CachedKeys = used
    /\ \A p \in Procs :
           LET c == call[p]
           IN  (Finished(c) /\ c.use_cache) =>
                   /\ c.hit <=> c.recent
                   /\ (c.pc = "done" /\ ~c.hit /\ c.victim # None) =>
                          /\ ~CacheHas(cache, c.victim[1])
                          /\ Len(cache) = CacheSize
                          /\ CacheHas(cache, c.key)

\* An insertion into a full cache has just dropped a key.
C6_Witness ==
    \E p \in Procs :
        /\ call[p].pc = "done" /\ call[p].use_cache /\ ~call[p].hit
        /\ call[p].victim # None
        /\ ~CacheHas(cache, call[p].victim[1])

\* C7: the name and the symbol of every TokenDetails returned by a call
\* with max_str_length = L are None or at most L characters long, on a
\* miss and on a hit alike.
C7_TruncatedToMaxStrLength ==
    \A p \in Procs :
        call[p].pc = "done" =>
            /\ FitsIn(call[p].result[1].name, call[p].max_str_length)
            /\ FitsIn(call[p].result[1].symbol, call[p].max_str_length)

\* The step is a call of fetch_erc20_details by process p.
Called(p) == call'[p] # call[p]

C16_Fresh ==
    \A p \in Procs :
        LET c == call[p]
        IN  (Finished(c) /\ ~c.use_cache) =>
                /\ ~c.hit
                /\ IsPrefix(Reads(c), ReadOrder)
                /\ c.pc = "done" => Reads(c) = ReadOrder
                /\ contract[c.address] = WellFormed =>
                       /\ c.pc = "done"
                       /\ c.result[1] =
                              TokenDetails(c.address,
                                           Some(Truncate(NameOf(c.address), c.max_str_length)),
                                           Some(Truncate(SymbolOf(c.address), c.max_str_length)),
                                           c.result[1].total_supply,
                                           DecimalsOf(c.address))
                       /\ \E v \in Supplies :
                              /\ v <= minted[c.address]
                              /\ c.result[1].total_supply = Some(v)

\* C16: a call with cache=None is never answered from a cache: it attempts
\* the metadata reads in order, all four of them unless one raises, and
\* returns what they read; the step of such a call leaves the cache, the
\* order of its entries included, as it was.
C16_DisabledCacheUntouched ==
    /\ []C16_Fresh
    /\ [][\A p \in Procs : (Called(p) /\ ~call'[p].use_cache) => cache' = cache]_vars

\* A call with cache=None has read the current total supply while the
\* cache holds an older entry for the same key.
C16_Witness ==
    \E p \in Procs :
        /\ call[p].pc = "done" /\ ~call[p].use_cache
        /\ CacheHas(cache, call[p].key)
        /\ cache[CacheIndex(cache, call[p].key)].value.supply = Some(100)
        /\ call[p].result[1].total_supply = Some(200)
        /\ Reads(call[p]) = ReadOrder

C17_NoEntryAfterFailure ==
    \A p \in Procs :
        (call[p].pc = "failed" /\ call[p].use_cache) =>
            ~CacheHas(cache, call[p].key)

\* C17: a call that ends with an exception, in strict mode on an unreadable
\* field or with an error no except clause catches, leaves the cache as it
\* was before the call: there is no entry for its key afterwards, and what
\* it read before the exception is stored nowhere.
C17_FailureLeavesCacheUnchanged ==
    /\ []C17_NoEntryAfterFailure
    /\ [][\A p \in Procs : (Called(p) /\ call'[p].pc = "failed") => cache' = cache]_vars

\* A strict call through the cache failed on totalSupply after three
\* successful reads, with another token's entry in the cache.
C17_Witness ==
    \E p \in Procs :
        /\ call[p].pc = "failed" /\ call[p].use_cache /\ call[p].raise_on_error
        /\ Reads(call[p]) = ReadOrder
        /\ call[p].symbol # None /\ call[p].name # None
        /\ Len(cache) = 1
        /\ ~CacheHas(cache, call[p].key)

(***************************************************************************)
(* Claims about sending and confirming the transaction, checked under      *)
(* TxSpec.                                                                 *)
(***************************************************************************)
\* The outcome a printed message reports, if it reports one.
OutcomeOf(m) ==
    CASE m.kind = "successful" -> "Mined-Success"
      [] m.kind = "error" /\ m.text = TransactionFailed -> "Mined-Failure"
      [] m.kind = "not_mined" -> "TimedOut"
      [] OTHER -> "none"

ReportsOutcome(m) == OutcomeOf(m) # "none"

\* The outcomes the run has reported so far, in order.
Outcomes(w) ==
    LET reports == SelectSeq(w.out, ReportsOutcome)
    IN  [i \in 1..Len(reports) |-> OutcomeOf(reports[i])]

\* The outcome the receipt, or its absence, calls for.
Classified(w) ==
    IF w.tx_receipt = None THEN "TimedOut"
    ELSE IF w.tx_receipt[1].status = 1 THEN "Mined-Success"
    ELSE "Mined-Failure"

\* C8: a run never reports two outcomes; once a run that sent its
\* transaction has ended it has reported exactly one: Mined-Success for a
\* receipt with status 1, Mined-Failure for a receipt with any other
\* status, TimedOut when the wait ended without a receipt.
C8_ExactlyOneOutcome ==
    /\ Len(Outcomes(wf)) <= 1
    /\ wf.sent = 0 => Outcomes(wf) = <<>>
    /\ (wf.pc = "exit" /\ wf.sent > 0) => Outcomes(wf) = <<Classified(wf)>>
    /\ wf.pc = "scan" => Outcomes(wf) = <<"Mined-Success">>

\* A swap that ended with a receipt of a status that is neither 0 nor 1.
C8_Witness ==
    /\ wf.pc = "exit" /\ wf.script = "swap"
    /\ wf.tx_receipt # None /\ wf.tx_receipt[1].status = 2
    /\ Outcomes(wf) = <<"Mined-Failure">>

C9_Safe ==
    /\ wf.pc = "wait" => wf.elapsed <= ReceiptTimeout
    /\ wf.timed_out =>
           /\ wf.elapsed > ReceiptTimeout
           /\ wf.tx_receipt = None
           /\ Outcomes(wf) = <<"TimedOut">>
    /\ wf.tx_receipt = None =>
           \A i \in 1..Len(wf.out) :
               OutcomeOf(wf.out[i]) \notin {"Mined-Success", "Mined-Failure"}

\* C9: the wait for the receipt always ends: with the receipt, or, when
\* the node produces none, with TimedOut once more than the timeout has
\* passed; the run never waits past the deadline and never reports a mined
\* outcome without a receipt.
C9_ConfirmTerminates ==
    /\ []C9_Safe
    /\ (wf.pc = "wait") ~> (wf.pc \in {"check", "exit"})

\* The wait timed out and the node has still not mined the transaction.
C9_Witness ==
    /\ wf.timed_out /\ wf.pc = "exit"
    /\ wf.receipt = None
    /\ wf.out = <<NotMined>>

\* C10: a run sends its transaction at most once; a Mined-Failure or a
\* TimedOut ends the run, and the run has then printed it.
C10_NoResubmission ==
    /\ wf.sent <= 1
    /\ \A i \in 1..Len(wf.out) :
           OutcomeOf(wf.out[i]) \in {"Mined-Failure", "TimedOut"} =>
               wf.pc = "exit" /\ i = Len(wf.out)
    /\ (wf.pc = "exit" /\ wf.tx_receipt # None /\ wf.tx_receipt[1].status # 1) =>
           wf.out = <<ErrorOccurred(TransactionFailed)>>
    /\ (wf.pc = "exit" /\ wf.sent > 0 /\ wf.tx_receipt = None) =>
           wf.out = <<NotMined>>

\* The approve script ended after its transaction was mined and reverted.
C10_Witness ==
    /\ wf.pc = "exit" /\ wf.script = "approve" /\ wf.sent = 1
    /\ wf.tx_receipt # None /\ wf.tx_receipt[1].status = 0
    /\ wf.out = <<ErrorOccurred(TransactionFailed)>>

(***************************************************************************)
(* Claims about the scan of the receipt's logs, checked under TxSpec.      *)
(***************************************************************************)
\* A log whose primary topic is the signature of the Swap event; a log
\* without topics has no primary topic.
IsSwapLog(log) == Len(log.topics) > 0 /\ log.topics[1] = SwapTopic

\* The first log of the list that is a Swap log, None when there is none.
FirstSwapLog(logs) ==
    IF \E i \in 1..Len(logs) : IsSwapLog(logs[i])
    THEN Some(logs[CHOOSE i \in 1..Len(logs) :
                      /\ IsSwapLog(logs[i])
                      /\ \A j \in 1..(i - 1) : ~IsSwapLog(logs[j])])
    ELSE None

\* A swap whose transaction succeeded and whose logs have been scanned.
ScannedSwap(w) ==
    /\ w.script = "swap" /\ w.pc = "exit"
    /\ w.tx_receipt # None /\ w.tx_receipt[1].status = 1

LastOut(w) == w.out[Len(w.out)]

\* C11: whatever logs the receipt carries, logs of other events and logs
\* without topics included, the scan finds the first log in list order
\* whose primary topic is the Swap signature, and finds None, reporting the
\* absence and no error, when no log matches.
C11_FirstMatchOrNone ==
    ScannedSwap(wf) =>
        /\ wf.swap_log = FirstSwapLog(wf.tx_receipt[1].logs)
        /\ wf.swap_log = None => LastOut(wf) = NoSwapEvent

C13_RoundTripIsIdentity ==
    (calc.op = "convert" /\ calc.pc = "done") => calc.back = Some(calc.raw)

\* The same chain and the same address, letter case apart.
SamePair(a, b) == a[1] = b[1] /\ Lower(a[2]) = Lower(b[2])

\* C14: two (chain id, address) pairs have the same cache key exactly when
\* the chain ids are equal and the addresses differ in letter case at most.
C14_KeyOfChainAndLowerAddress ==
    (calc.op = "key" /\ calc.pc = "done") =>
        (calc.key_a = calc.key_b <=> SamePair(calc.a, calc.b))

(***************************************************************************)
(* Claims about callers that share the cache, checked under ConcSpec.      *)
(***************************************************************************)
\* The metadata a cached dictionary holds.
EntryMetadata(v) ==
    [name |-> v.name, symbol |-> v.symbol, total_supply |-> v.supply,
     decimals |-> v.decimals]

\* The token a cache key stands for.
TokenOf(k) == CHOOSE t \in Tokens : Lower(t) = k[2]

\* The finished calls that missed on key k and wrote it.
Writers(k) ==
    {p \in Procs : call[p].pc = "done" /\ ~call[p].hit /\ call[p].key = k}

\* C15: with callers interleaved at the cache lookup, each remote read and
\* the cache write, the cache holds one entry per key, and the entry under
\* key k holds the four fields of the token of k as a resolution of k last
\* wrote or returned them, whatever resolutions of other keys did since;
\* when both callers have missed on k and finished, each having made its
\* own four reads, the entry under k is the one written by one of them.
C15_EntriesKeptApart ==
    /\ \A i, j \in 1..Len(cache) : cache[i].key = cache[j].key => i = j
    /\ \A i \in 1..Len(cache) :
           LET k == cache[i].key
               v == cache[i].value
           IN  /\ returned[k] = Some(EntryMetadata(v))
               /\ v.symbol = Some(SymbolOf(TokenOf(k)))
               /\ v.name = Some(NameOf(TokenOf(k)))
               /\ v.decimals = DecimalsOf(TokenOf(k))
               /\ v.supply \in {Some(n) : n \in {m \in Supplies : m <= minted[TokenOf(k)]}}
               /\ Writers(k) = Procs =>
                      /\ \A p \in Procs : Reads(call[p]) = ReadOrder
                      /\ \E p \in Procs : v = StoredEntry(call[p])

\* Both callers missed on the same key and read different total supplies;
\* the entry of another key is in the cache as well.
C15_Witness ==
    /\ \E k \in CacheKeys :
           /\ Writers(k) = Procs
           /\ CacheHas(cache, k)
           /\ call[1].supply # call[2].supply
    /\ Len(cache) > 1

(***************************************************************************)
(* The order of the steps of swap.py, checked under TxSpec.                *)
(***************************************************************************)
SwapOrder == <<"resolve_base", "resolve_quote", "build", "send", "confirm", "scan">>

Done(w, step) == \E i \in 1..Len(w.steps) : w.steps[i] = step

\* The run has scanned the logs or printed something about them.
LogsLookedAt(w) ==
    \/ Done(w, "scan")
    \/ w.swap_log # None
    \/ \E i \in 1..Len(w.out) : w.out[i].kind \in {"amount_out", "no_swap_event"}

\* C18: the swap script does its steps in one order: the base token and
\* the quote token are resolved before the transaction is built, the
\* transaction is built before it is sent and sent before it is
\* confirmed; the logs are scanned, and an amount reported, only after a
\* receipt of status 1 has been reported as a success, never after a
\* failed transaction or a timeout.
C18_StepsInOrder ==
    wf.script = "swap" =>
        /\ IsPrefix(wf.steps, SwapOrder)
        /\ Done(wf, "build") =>
               /\ wf.base_decimals = DecimalsOf(TokenA)
               /\ wf.quote_decimals = DecimalsOf(TokenB)
               /\ \A t \in Tokens :
                      CacheHas(cache, generate_cache_key(PyInt(0, NodeChainId), t))
        /\ wf.sent > 0 <=> Done(wf, "send")
        /\ (wf.tx_receipt # None \/ wf.timed_out) <=> Done(wf, "confirm")
        /\ LogsLookedAt(wf) =>
               /\ wf.tx_receipt # None /\ wf.tx_receipt[1].status = 1
               /\ wf.out[1] = Successful
        /\ (wf.pc = "exit" /\ Classified(wf) \in {"Mined-Failure", "TimedOut"}) =>
               ~LogsLookedAt(wf)

\* A swap that went through every step and reported the amount received.
C18_Witness ==
    /\ wf.script = "swap" /\ wf.pc = "exit"
    /\ wf.steps = SwapOrder
    /\ wf.raw_amount = Some(<<1>> \o Zeros(16))
    /\ LastOut(wf).kind = "amount_out"

====
